---------------------------- MODULE Spec2Model ----------------------------
(***************************************************************************)
(* swappy: the mapping registry (Swappy session) and the monitor worker.   *)
(*                                                                         *)
(* Two threads of control: the session thread, which calls the registry    *)
(* operations (and may call the public enable_monitor/disable_monitor      *)
(* directly), and the monitor worker thread.  They share nothing but the   *)
(* bounded signal channel and one single-use acknowledgment channel per    *)
(* disable call.  The operating system (mmap, munmap, the statistics       *)
(* readers, the 1-second timeout) is the environment: each of its outcomes *)
(* is a nondeterministic choice.                                           *)
(***************************************************************************)
EXTENDS Integers, Sequences, FiniteSets, TLC

(***************************************************************************)
(* Bounds of the model.                                                    *)
(***************************************************************************)
\* Width of usize in the model, in bits (addresses wrap modulo 2^UsizeBits).
UsizeBits == 16
\* Threads that hold the monitor handle; thread 1 is the session thread.
NumThreads == 2
\* Calls the session thread makes in one behaviour.
MaxCalls == 4
\* Firings of the 1-second timeout in one behaviour.
MaxTicks == 1
\* Entries the registry may hold.
MaxMappings == 3

(***************************************************************************)
(* Program constants.                                                      *)
(***************************************************************************)
PAGE_SIZE == 4096
\* Capacity of the signal channel: sync_channel(4).
ChanCap == 4
UsizeMax == (2 ^ UsizeBits) - 1
\* libc::MAP_FAILED is !0 as *mut c_void: every bit set.
MAP_FAILED == UsizeMax
\* std::ptr::null_mut()
NullPtr == 0

Threads == 1 .. NumThreads
Main == 1

\* Base addresses the kernel may hand out (page aligned, far enough apart
\* that regions of the sizes below never overlap).
MmapBases == {PAGE_SIZE, 4 * PAGE_SIZE}
\* Sizes the front end passes to reserve/no_reserve.
Sizes == {0, PAGE_SIZE + 1}
\* Addresses the front end passes to touch/remove.
ArgAddrs == MmapBases \cup {MAP_FAILED}

VARIABLES
    mappings,    \* Swappy.mappings: the registry, a sequence of Mapping
    kernel,      \* base addresses of the regions the kernel has mapped
    chan,        \* the signal channel: messages sent and not yet received
    txAlive,     \* the session (and its SyncSender) has not been dropped
    wstate,      \* the worker: "Idle", "Active", "Panicked" or "Exited"
    sampling,    \* the timeout fired and monitor_print() is running
    ack,         \* per thread, its acknowledgment channel
    out,         \* lines printed by the worker: "H" header, "S" statistics,
                 \* "W" the warning (on stderr) of a sample that failed
    pc,          \* per thread, where it is
    ctx,         \* the session thread's call in progress (its locals)
    ret,         \* what the last registry call returned
    pre,         \* the registry as it was when the last call started
    lastmon,     \* the last monitor call the session thread completed
    removed,     \* addresses removed with success and not mapped since
    ncalls,      \* calls made so far
    ticks,       \* timeouts fired so far
    activeTicks, \* timeouts fired since the worker last entered Active
    input,       \* the argument of the reader or formatter being run
    output       \* what it returned

vars == << mappings, kernel, chan, txAlive, wstate, sampling, ack, out, pc,
           ctx, ret, pre, lastmon, removed, ncalls, ticks, activeTicks,
           input, output >>

(***************************************************************************)
(* Data.                                                                   *)
(***************************************************************************)
\* Faulty variant: a new entry starts out allocated.
MappingAllocated(addr, size, reserved) ==
    [addr |-> addr, size |-> size, reserved |-> reserved,
     allocated |-> TRUE, touches |-> 0]

\* struct Mapping; touches is a history field: the touch calls that found
\* this entry.
Mapping(addr, size, reserved) ==
    [addr |-> addr, size |-> size, reserved |-> reserved,
     allocated |-> FALSE, touches |-> 0]

\* enum MonitorMessage
StartStats == [type |-> "StartStats", tx |-> 0]
StopStats(t) == [type |-> "StopStats", tx |-> t]

NoCtx ==
    [op |-> "none", addr |-> 0, size |-> 0, idx |-> 0, allocated |-> FALSE,
     rv |-> FALSE, startAddr |-> 0, endAddr |-> 0, osrv |-> 0,
     oscalls |-> 0, signals |-> 0, sendFailed |-> FALSE, writes |-> {},
     hdrs |-> 0]

NewCtx(op, addr, size) == [NoCtx EXCEPT !.op = op, !.addr = addr, !.size = size]

NoRet ==
    [op |-> "none", kind |-> "none", arg |-> 0, flag |-> FALSE, addr |-> 0,
     list |-> << >>]

Ret(op, kind, arg, flag, addr) ==
    [op |-> op, kind |-> kind, arg |-> arg, flag |-> flag, addr |-> addr,
     list |-> << >>]

\* No reader or formatter is being run.
NoCall == [fn |-> "none"]

\* self.mappings.iter_mut().find(|m| m.addr as usize == addr): the index of
\* the first entry with that address, 0 when there is none.
Find(ms, addr) ==
    LET hits == {i \in 1 .. Len(ms) : ms[i].addr = addr}
    IN  IF hits = {} THEN 0 ELSE CHOOSE i \in hits : \A j \in hits : i <= j

\* Faulty variant: the entry found is replaced by the last one, as
\* Vec::swap_remove does.
RetainSwapRemove(ms, addr) ==
    LET i == Find(ms, addr)
        n == Len(ms)
    IN  IF i = 0 THEN ms
        ELSE [j \in 1 .. n - 1 |-> IF j = i THEN ms[n] ELSE ms[j]]

\* self.mappings.retain(|m| m.addr != addr)
Retain(ms, addr) == SelectSeq(ms, LAMBDA m : m.addr # addr)

\* (start_addr..end_addr).step_by(PAGE_SIZE): the addresses the loop visits.
PageAddrs(startAddr, endAddr) ==
    IF endAddr <= startAddr THEN {}
    ELSE {startAddr + k * PAGE_SIZE :
              k \in 0 .. ((endAddr - startAddr - 1) \div PAGE_SIZE)}

\* usize addition as the release build does it.
WrappingAdd(a, b) == (a + b) % (2 ^ UsizeBits)

(***************************************************************************)
(* The operating system.                                                   *)
(***************************************************************************)
\* What mmap(NULL, size, ...) may return: MAP_FAILED, or the base of a
\* region that is not mapped; a length of zero is always refused (EINVAL).
MmapOutcomes(size) ==
    {MAP_FAILED} \cup (IF size = 0 THEN {} ELSE MmapBases \ kernel)

\* What munmap(addr, size) may return: -1 for an address that is not page
\* aligned or a zero length (EINVAL); otherwise 0, or -1 for any other
\* kernel failure.
MunmapOutcomes(addr, size) ==
    IF addr % PAGE_SIZE # 0 \/ size = 0 THEN {-1} ELSE {0, -1}

(***************************************************************************)
(* The channels.                                                           *)
(***************************************************************************)
\* The worker still holds the Receiver.
RxAlive == wstate \in {"Idle", "Active"}

\* The process has not been brought down by a panic of the session thread.
ProcessAlive == pc[Main] # "crashed"

\* SyncSender::send returns: there is room in the buffer, or the receiver
\* is gone (the send fails at once).
CanSend == ~RxAlive \/ Len(chan) < ChanCap

\* Faulty variant: the acknowledgment senders in dropped messages stay open.
DropAcksNever(msgs, a) == a

\* The acknowledgment senders carried by the messages msgs are dropped.
DropAcks(msgs, a) ==
    [t \in Threads |->
        IF \E i \in 1 .. Len(msgs) :
               msgs[i].type = "StopStats" /\ msgs[i].tx = t
        THEN "closed" ELSE a[t]]

(***************************************************************************)
(* The monitor handle: what enable and disable do to the channels, for the *)
(* calling thread t.                                                       *)
(***************************************************************************)
\* monitor_tx.send(MonitorMessage::StartStats); a failure is only logged.
SendStart ==
    /\ CanSend
    /\ chan' = IF RxAlive THEN Append(chan, StartStats) ELSE chan
    /\ UNCHANGED ack

\* sync_channel(1), then monitor_tx.send(MonitorMessage::StopStats(tx)); on
\* failure the message, and the acknowledgment sender in it, is dropped.
SendStop(t) ==
    /\ CanSend
    /\ IF RxAlive
       THEN /\ chan' = Append(chan, StopStats(t))
            /\ ack' = [ack EXCEPT ![t] = "open"]
       ELSE /\ chan' = chan
            /\ ack' = [ack EXCEPT ![t] = "closed"]

\* Faulty variant: disable returns without waiting for the acknowledgment.
RecvAckNoWait(t) ==
    /\ ack' = [ack EXCEPT ![t] = "none"]
    /\ UNCHANGED chan

\* rx.recv(): returns once the acknowledgment has arrived or the
\* acknowledgment sender has been dropped; the channel is then dropped.
RecvAck(t) ==
    /\ ack[t] \in {"sent", "closed"}
    /\ ack' = [ack EXCEPT ![t] = "none"]
    /\ UNCHANGED chan

(***************************************************************************)
(* The monitor worker: monitor_thread.                                     *)
(***************************************************************************)
\* The worker thread ends (a panic, or an error return): the Receiver is
\* dropped and with it every message still in the channel.
WorkerEnds(how, msgs) ==
    /\ wstate' = how
    /\ chan' = << >>
    /\ ack' = DropAcks(msgs, ack)

\* Faulty variant: a StopStats received in Idle is dropped and the worker goes on.
StatsAlreadyStoppedIgnored ==
    /\ wstate' = wstate
    /\ chan' = Tail(chan)
    /\ ack' = DropAcks(<< Head(chan) >>, ack)

\* MonitorMessage::StopStats(_) => panic!("stats already stopped")
StatsAlreadyStopped == WorkerEnds("Panicked", chan)

\* Ok(MonitorMessage::StartStats) => panic!("stats already started")
StatsAlreadyStarted == WorkerEnds("Panicked", chan)

\* Faulty variant: the acknowledgment is sent without leaving the inner loop.
AcknowledgeNoBreak(t) ==
    /\ ack' = [ack EXCEPT ![t] = "sent"]
    /\ chan' = Tail(chan)
    /\ wstate' = "Active"

\* Ok(MonitorMessage::StopStats(tx)) => { tx.send(())...?; break; }: the
\* acknowledgment goes to thread t and the inner loop is left for Idle.
Acknowledge(t) ==
    /\ ack' = [ack EXCEPT ![t] = "sent"]
    /\ chan' = Tail(chan)
    /\ wstate' = "Idle"

\* Faulty variant: the header row is not printed.
PrintHeaderNever == out' = out

\* println!("{:5} {:10} {:9} {:10}", "FREE", ...): the header row.
PrintHeader == out' = Append(out, "H")

\* rx.recv() in Idle and its match: StartStats prints the header and enters
\* Active; StopStats panics; a closed channel ends the thread with an error.
monitor_thread_idle ==
    /\ ProcessAlive
    /\ wstate = "Idle"
    /\ \/ /\ chan # << >>
          /\ IF Head(chan).type = "StartStats"
             THEN /\ wstate' = "Active"
                  /\ chan' = Tail(chan)
                  /\ PrintHeader
                  /\ activeTicks' = 0
                  /\ UNCHANGED ack
             ELSE /\ StatsAlreadyStopped
                  /\ UNCHANGED << out, activeTicks >>
       \/ /\ chan = << >>
          /\ ~txAlive
          /\ WorkerEnds("Exited", chan)
          /\ UNCHANGED << out, activeTicks >>
    /\ UNCHANGED << mappings, kernel, txAlive, sampling, pc, ctx, ret, pre,
                    lastmon, removed, ncalls, ticks, input, output >>

\* Faulty variant: the StopStats arm prints one more statistics line.
StopLinesOneMore == << "S" >>

\* What the StopStats arm prints before the acknowledgment: nothing.
StopLines == << >>

\* rx.recv_timeout(1 s) in Active returning a message or a closed channel:
\* StopStats sends the acknowledgment and goes back to Idle (a failed send
\* ends the thread with an error); StartStats panics.
monitor_thread_active ==
    /\ ProcessAlive
    /\ wstate = "Active"
    /\ ~sampling
    /\ \/ /\ chan # << >>
          /\ IF Head(chan).type = "StopStats"
             THEN /\ out' = out \o StopLines
                  /\ IF ack[Head(chan).tx] = "open"
                     THEN Acknowledge(Head(chan).tx)
                     ELSE WorkerEnds("Exited", chan)
             ELSE /\ StatsAlreadyStarted
                  /\ UNCHANGED out
       \/ /\ chan = << >>
          /\ ~txAlive
          /\ WorkerEnds("Exited", chan)
          /\ UNCHANGED out
    /\ UNCHANGED << mappings, kernel, txAlive, sampling, pc, ctx, ret, pre,
                    lastmon, removed, ncalls, ticks, activeTicks, input,
                    output >>

\* Faulty variant: a closed channel is taken for a timeout (Err(_) in place
\* of Err(RecvTimeoutError::Timeout)).
TimeoutOrClosed == chan = << >>

\* Err(RecvTimeoutError::Timeout): the channel stayed empty for the second
\* and a sender is still there (with none left the error is Disconnected).
Timeout == chan = << >> /\ txAlive

\* rx.recv_timeout(1 s) in Active returning Timeout: no message arrived
\* within the second; monitor_print() starts.
monitor_timeout ==
    /\ ProcessAlive
    /\ wstate = "Active"
    /\ ~sampling
    /\ Timeout
    /\ ticks < MaxTicks
    /\ ticks' = ticks + 1
    /\ activeTicks' = activeTicks + 1
    /\ sampling' = TRUE
    /\ UNCHANGED << mappings, kernel, chan, txAlive, wstate, ack, out, pc,
                    ctx, ret, pre, lastmon, removed, ncalls, input, output >>

\* Faulty variant: monitor_print_stats() reads the counters and prints
\* nothing.
SampleLinesNone(readersOk) == IF readersOk THEN << >> ELSE << "W" >>

\* Faulty variant: after the warning of a failed reader a statistics line
\* is printed all the same.
SampleLinesBoth(readersOk) == IF readersOk THEN << "S" >> ELSE << "W", "S" >>

\* What one call of monitor_print() writes: the statistics line when the
\* readers succeed, the warning when one of them fails. (The counters the
\* kernel returns are taken to be consistent, so that the quantities
\* derived for the line do not overflow.)
SampleLines(readersOk) == IF readersOk THEN << "S" >> ELSE << "W" >>

\* monitor_print(): the readers succeed and one statistics line is printed,
\* or one of them fails and only a warning is logged; back to recv_timeout.
monitor_print ==
    /\ ProcessAlive
    /\ sampling
    /\ sampling' = FALSE
    /\ \E readersOk \in BOOLEAN : out' = out \o SampleLines(readersOk)
    /\ UNCHANGED << mappings, kernel, chan, txAlive, wstate, ack, pc, ctx,
                    ret, pre, lastmon, removed, ncalls, ticks, activeTicks, input, output >>

(***************************************************************************)
(* The session thread: Swappy.                                             *)
(***************************************************************************)
\* The session thread may start a call.
Ready ==
    /\ pc[Main] = "ready"
    /\ ncalls < MaxCalls

\* The call in progress has sent (or tried to send) one more signal.
Signalled(c, failed) ==
    [c EXCEPT !.signals = @ + 1, !.sendFailed = @ \/ failed]

\* Header rows among the lines o.
HeaderLines(o) == Len(SelectSeq(o, LAMBDA l : l = "H"))

\* The call in progress has sent (or tried to send) its enable signal;
\* hdrs is a history field: the header rows printed up to then.
SignalledStart(c, failed) ==
    [Signalled(c, failed) EXCEPT !.hdrs = HeaderLines(out)]

\* do_swap_map(size, reserved), called by swap_reserve (reserved) and
\* swap_noreserve (not reserved): one mmap call; an error when the address
\* returned is null, otherwise a new entry is pushed.
do_swap_map(size, reserved) ==
    /\ Ready
    /\ Len(mappings) < MaxMappings
    /\ \E addr \in MmapOutcomes(size) :
          /\ kernel' = IF addr \in MmapBases THEN kernel \cup {addr} ELSE kernel
          /\ ctx' = [NewCtx(IF reserved THEN "reserve" ELSE "no_reserve",
                            0, size)
                        EXCEPT !.osrv = addr, !.oscalls = 1]
          /\ IF addr = NullPtr
             THEN /\ ret' = Ret(ctx'.op, "MappingFailed", size, FALSE, 0)
                  /\ UNCHANGED << mappings, removed >>
             ELSE /\ mappings' = Append(mappings, Mapping(addr, size, reserved))
                  /\ ret' = Ret(ctx'.op, "Ok", size, FALSE, addr)
                  /\ removed' = removed \ {addr}
    /\ pre' = mappings
    /\ ncalls' = ncalls + 1
    /\ UNCHANGED << chan, txAlive, wstate, sampling, ack, out, pc, lastmon,
                    ticks, activeTicks, input, output >>

\* mappings(): an iterator over the entries, in the order of the Vec.
list ==
    /\ Ready
    /\ ctx' = NewCtx("list", 0, 0)
    /\ ret' = [Ret("list", "Ok", 0, FALSE, 0) EXCEPT !.list = mappings]
    /\ pre' = mappings
    /\ ncalls' = ncalls + 1
    /\ UNCHANGED << mappings, kernel, chan, txAlive, wstate, sampling, ack, out,
                    pc, lastmon, removed, ticks, activeTicks, input, output >>

swap_reserve == \E size \in Sizes : do_swap_map(size, TRUE)

swap_noreserve == \E size \in Sizes : do_swap_map(size, FALSE)

\* Faulty variant: the monitor is enabled before the lookup.
UnknownMappingAfterEnable(op, addr) ==
    /\ CanSend
    /\ chan' = IF RxAlive THEN Append(chan, StartStats) ELSE chan
    /\ ret' = Ret(op, "UnknownMapping", addr, FALSE, 0)
    /\ ctx' = Signalled(NewCtx(op, addr, 0), ~RxAlive)
    /\ UNCHANGED << mappings, kernel, ack, pc, lastmon, removed >>

\* The lookup of swap_rm and swap_touch found no entry: the call returns
\* the error at once.
UnknownMapping(op, addr) ==
    /\ ret' = Ret(op, "UnknownMapping", addr, FALSE, 0)
    /\ ctx' = NewCtx(op, addr, 0)
    /\ UNCHANGED << mappings, kernel, chan, ack, pc, lastmon, removed >>

\* The history field touches: 0, 1, or 2 for two and more.
Touched(n) == IF n = 0 THEN 1 ELSE 2

\* Faulty variant: the negation is missing.
TouchRvNotNegated(m) == m.allocated

\* let rv = !mapping.allocated
TouchRv(m) == ~m.allocated

\* Faulty variant: the flag is set in every entry.
SetAllocatedEvery(ms, i) ==
    [j \in 1 .. Len(ms) |->
         [ms[j] EXCEPT !.allocated = TRUE, !.touches = Touched(@)]]

\* mapping.allocated = true, for the entry the lookup found (touches is a
\* history field).
SetAllocated(ms, i) ==
    [ms EXCEPT ![i].allocated = TRUE, ![i].touches = Touched(@)]

\* swap_touch(addr) up to enable_monitor(): the lookup, the flag, the range.
\* mapping.addr + mapping.size overflows for an entry at MAP_FAILED: a
\* build that checks overflow panics there, one that does not wraps.
swap_touch ==
    /\ Ready
    /\ \E addr \in ArgAddrs :
          LET i == Find(mappings, addr) IN
          IF i = 0
          THEN UnknownMapping("touch", addr)
          ELSE LET m == mappings[i]
                   overflow == m.addr + m.size > UsizeMax
               IN  /\ mappings' = SetAllocated(mappings, i)
                   /\ ctx' = [NewCtx("touch", addr, m.size)
                                 EXCEPT !.idx = i,
                                        !.allocated = m.allocated,
                                        !.rv = TouchRv(m),
                                        !.startAddr = m.addr,
                                        !.endAddr = WrappingAdd(m.addr, m.size)]
                   /\ \E overflowChecks \in BOOLEAN :
                         pc' = [pc EXCEPT ![Main] =
                                   IF overflow /\ overflowChecks
                                   THEN "crashed" ELSE "touch_enable"]
                   /\ UNCHANGED << kernel, chan, ack, ret, lastmon, removed >>
    /\ pre' = mappings
    /\ ncalls' = ncalls + 1
    /\ UNCHANGED << txAlive, wstate, sampling, out, ticks, activeTicks, input, output >>

\* swap_touch: self.enable_monitor()
touch_enable ==
    /\ pc[Main] = "touch_enable"
    /\ SendStart
    /\ ctx' = SignalledStart(ctx, ~RxAlive)
    /\ lastmon' = "enable"
    /\ pc' = [pc EXCEPT ![Main] = "touch_write"]
    /\ UNCHANGED << mappings, kernel, txAlive, wstate, sampling, out, ret,
                    pre, removed, ncalls, ticks, activeTicks, input, output >>

\* swap_touch: the loop writing one byte at the start of every page
touch_write ==
    /\ pc[Main] = "touch_write"
    /\ ctx' = [ctx EXCEPT !.writes = PageAddrs(ctx.startAddr, ctx.endAddr)]
    /\ pc' = [pc EXCEPT ![Main] = "touch_disable"]
    /\ UNCHANGED << mappings, kernel, chan, txAlive, wstate, sampling, ack,
                    out, ret, pre, lastmon, removed, ncalls, ticks,
                    activeTicks, input, output >>

\* swap_touch: self.disable_monitor(), the send
touch_disable ==
    /\ pc[Main] = "touch_disable"
    /\ SendStop(Main)
    /\ ctx' = Signalled(ctx, ~RxAlive)
    /\ pc' = [pc EXCEPT ![Main] = "touch_wait"]
    /\ UNCHANGED << mappings, kernel, txAlive, wstate, sampling, out, ret,
                    pre, lastmon, removed, ncalls, ticks, activeTicks, input, output >>

\* swap_touch: self.disable_monitor(), the wait, then Ok(rv)
touch_return ==
    /\ pc[Main] = "touch_wait"
    /\ RecvAck(Main)
    /\ ctx' = [ctx EXCEPT !.sendFailed = @ \/ ack[Main] = "closed"]
    /\ ret' = Ret("touch", "Ok", ctx.addr, ctx.rv, 0)
    /\ lastmon' = "disable"
    /\ pc' = [pc EXCEPT ![Main] = "ready"]
    /\ UNCHANGED << mappings, kernel, txAlive, wstate, sampling, out, pre,
                    removed, ncalls, ticks, activeTicks, input, output >>

\* Faulty variant: the entry stays in the registry after a munmap that
\* succeeded.
RmFinishNoRetain(rv) ==
    IF rv # 0
    THEN /\ ret' = Ret("rm", "UnmapFailed", ctx.addr, FALSE, 0)
         /\ UNCHANGED << mappings, removed >>
    ELSE /\ ret' = Ret("rm", "Ok", ctx.addr, FALSE, 0)
         /\ removed' = removed \cup {ctx.addr}
         /\ UNCHANGED mappings

\* Faulty variant: the entry is dropped before the result of munmap is
\* looked at.
RmFinishEager(rv) ==
    /\ mappings' = Retain(mappings, ctx.addr)
    /\ ret' = Ret("rm", IF rv # 0 THEN "UnmapFailed" ELSE "Ok", ctx.addr,
                  FALSE, 0)
    /\ removed' = IF rv # 0 THEN removed ELSE removed \cup {ctx.addr}

\* swap_rm after munmap (and the monitor bracket): the error when munmap
\* failed, otherwise the entry is dropped from the registry.
RmFinish(rv) ==
    IF rv # 0
    THEN /\ ret' = Ret("rm", "UnmapFailed", ctx.addr, FALSE, 0)
         /\ UNCHANGED << mappings, removed >>
    ELSE /\ mappings' = Retain(mappings, ctx.addr)
         /\ ret' = Ret("rm", "Ok", ctx.addr, FALSE, 0)
         /\ removed' = removed \cup {ctx.addr}

\* Faulty variant: swap_rm brackets every munmap with the monitor.
MonitoredAlways(m) == TRUE

\* swap_rm: if allocated { ... }: the monitor brackets the munmap of an
\* entry that has been touched.
Monitored(m) == m.allocated

\* swap_rm(addr) up to the monitor bracket: the lookup and the copy of the
\* entry's fields.
swap_rm ==
    /\ Ready
    /\ \E addr \in ArgAddrs :
          LET i == Find(mappings, addr) IN
          IF i = 0
          THEN UnknownMapping("rm", addr)
          ELSE LET m == mappings[i]
               IN  /\ ctx' = [NewCtx("rm", addr, m.size)
                                 EXCEPT !.idx = i, !.allocated = m.allocated]
                   /\ pc' = [pc EXCEPT ![Main] =
                                IF Monitored(m) THEN "rm_enable"
                                ELSE "rm_munmap"]
                   /\ UNCHANGED << mappings, kernel, chan, ack, ret, lastmon,
                                   removed >>
    /\ pre' = mappings
    /\ ncalls' = ncalls + 1
    /\ UNCHANGED << txAlive, wstate, sampling, out, ticks, activeTicks, input, output >>

\* swap_rm: if allocated { self.enable_monitor() }
rm_enable ==
    /\ pc[Main] = "rm_enable"
    /\ SendStart
    /\ ctx' = SignalledStart(ctx, ~RxAlive)
    /\ lastmon' = "enable"
    /\ pc' = [pc EXCEPT ![Main] = "rm_munmap"]
    /\ UNCHANGED << mappings, kernel, txAlive, wstate, sampling, out, ret,
                    pre, removed, ncalls, ticks, activeTicks, input, output >>

\* Faulty variant: a failed munmap returns its error before the monitor is
\* disabled.
DisabledAfterOnlyOk(c, rv) == c.allocated /\ rv = 0

\* swap_rm: if allocated { self.disable_monitor() } comes after munmap and
\* before its result is looked at.
DisabledAfter(c, rv) == c.allocated

\* swap_rm: libc::munmap(addr, size); an entry that is not allocated has no
\* monitor bracket and the call finishes here.
rm_munmap ==
    /\ pc[Main] = "rm_munmap"
    /\ \E rv \in MunmapOutcomes(ctx.addr, ctx.size) :
          /\ kernel' = IF rv = 0 THEN kernel \ {ctx.addr} ELSE kernel
          /\ ctx' = [ctx EXCEPT !.osrv = rv, !.oscalls = @ + 1]
          /\ IF DisabledAfter(ctx, rv)
             THEN /\ pc' = [pc EXCEPT ![Main] = "rm_disable"]
                  /\ UNCHANGED << mappings, ret, removed >>
             ELSE /\ pc' = [pc EXCEPT ![Main] = "ready"]
                  /\ RmFinish(rv)
    /\ UNCHANGED << chan, txAlive, wstate, sampling, ack, out, pre, lastmon,
                    ncalls, ticks, activeTicks, input, output >>

\* swap_rm: if allocated { self.disable_monitor() }, the send
rm_disable ==
    /\ pc[Main] = "rm_disable"
    /\ SendStop(Main)
    /\ ctx' = Signalled(ctx, ~RxAlive)
    /\ pc' = [pc EXCEPT ![Main] = "rm_wait"]
    /\ UNCHANGED << mappings, kernel, txAlive, wstate, sampling, out, ret,
                    pre, lastmon, removed, ncalls, ticks, activeTicks, input, output >>

\* Faulty variant: a failed wait for the acknowledgment is returned as the
\* error of swap_rm.
rm_return_propagating ==
    /\ pc[Main] = "rm_wait"
    /\ RecvAck(Main)
    /\ ctx' = [ctx EXCEPT !.sendFailed = @ \/ ack[Main] = "closed"]
    /\ IF ack[Main] = "closed"
       THEN /\ ret' = Ret("rm", "MonitorFailed", ctx.addr, FALSE, 0)
            /\ UNCHANGED << mappings, removed >>
       ELSE RmFinish(ctx.osrv)
    /\ lastmon' = "disable"
    /\ pc' = [pc EXCEPT ![Main] = "ready"]
    /\ UNCHANGED << kernel, txAlive, wstate, sampling, out, pre, ncalls,
                    ticks, activeTicks, input, output >>

\* swap_rm: self.disable_monitor(), the wait, then the end of swap_rm
rm_return ==
    /\ pc[Main] = "rm_wait"
    /\ RecvAck(Main)
    /\ ctx' = [ctx EXCEPT !.sendFailed = @ \/ ack[Main] = "closed"]
    /\ RmFinish(ctx.osrv)
    /\ lastmon' = "disable"
    /\ pc' = [pc EXCEPT ![Main] = "ready"]
    /\ UNCHANGED << kernel, txAlive, wstate, sampling, out, pre, ncalls,
                    ticks, activeTicks, input, output >>

\* Swappy::enable_monitor(), called from outside the registry operations
enable_monitor ==
    /\ Ready
    /\ SendStart
    /\ ctx' = Signalled(NewCtx("enable_monitor", 0, 0), ~RxAlive)
    /\ lastmon' = "enable"
    /\ ncalls' = ncalls + 1
    /\ UNCHANGED << mappings, kernel, txAlive, wstate, sampling, out, pc,
                    ret, pre, removed, ticks, activeTicks, input, output >>

\* Swappy::disable_monitor(), called from outside the registry operations:
\* the send
disable_monitor ==
    /\ Ready
    /\ SendStop(Main)
    /\ ctx' = Signalled(NewCtx("disable_monitor", 0, 0), ~RxAlive)
    /\ pc' = [pc EXCEPT ![Main] = "disable_wait"]
    /\ ncalls' = ncalls + 1
    /\ UNCHANGED << mappings, kernel, txAlive, wstate, sampling, out, ret,
                    pre, lastmon, removed, ticks, activeTicks, input, output >>

\* Swappy::disable_monitor(), called from outside: the wait
disable_monitor_return ==
    /\ pc[Main] = "disable_wait"
    /\ RecvAck(Main)
    /\ ctx' = [ctx EXCEPT !.sendFailed = @ \/ ack[Main] = "closed"]
    /\ lastmon' = "disable"
    /\ pc' = [pc EXCEPT ![Main] = "ready"]
    /\ UNCHANGED << mappings, kernel, txAlive, wstate, sampling, out, ret,
                    pre, removed, ncalls, ticks, activeTicks, input, output >>

\* The session is dropped: the SyncSender goes, the worker is detached.
drop_session ==
    /\ pc[Main] = "ready"
    /\ pc' = [pc EXCEPT ![Main] = "dropped"]
    /\ txAlive' = FALSE
    /\ UNCHANGED << mappings, kernel, chan, wstate, sampling, ack, out, ctx,
                    ret, pre, lastmon, removed, ncalls, ticks, activeTicks, input, output >>

(***************************************************************************)
(* The specification.                                                      *)
(***************************************************************************)
\* The variables of the session and the monitor.
sessionVars ==
    << mappings, kernel, chan, txAlive, wstate, sampling, ack, out, pc, ctx,
       ret, pre, lastmon, removed, ncalls, ticks, activeTicks >>

\* Swappy::new(): an empty registry, an empty channel, the worker waiting
\* in Idle.
New ==
    /\ mappings = << >>
    /\ kernel = {}
    /\ chan = << >>
    /\ txAlive = TRUE
    /\ wstate = "Idle"
    /\ sampling = FALSE
    /\ ack = [t \in Threads |-> "none"]
    /\ out = << >>
    /\ pc = [t \in Threads |-> "ready"]
    /\ ctx = NoCtx
    /\ ret = NoRet
    /\ pre = << >>
    /\ lastmon = "none"
    /\ removed = {}
    /\ ncalls = 0
    /\ ticks = 0
    /\ activeTicks = 0

\* The session as constructed; no reader or formatter is being run.
Init ==
    /\ New
    /\ input = NoCall
    /\ output = NoCall

Next ==
    \/ list
    \/ swap_reserve
    \/ swap_noreserve
    \/ swap_touch
    \/ touch_enable
    \/ touch_write
    \/ touch_disable
    \/ touch_return
    \/ swap_rm
    \/ rm_enable
    \/ rm_munmap
    \/ rm_disable
    \/ rm_return
    \/ enable_monitor
    \/ disable_monitor
    \/ disable_monitor_return
    \/ drop_session
    \/ monitor_thread_idle
    \/ monitor_thread_active
    \/ monitor_timeout
    \/ monitor_print

Spec == Init /\ [][Next]_vars

(***************************************************************************)
(* The monitor handle on its own (monitor.rs): every thread that holds the *)
(* handle may call enable() and disable(), in any order and concurrently.  *)
(* A call is entered in one step and its send is the next: send is where a *)
(* caller may have to wait.                                                *)
(***************************************************************************)
\* Calls made on the handle in one behaviour.
MaxMonitorCalls == 5

\* Monitor::enable() is entered by thread t.
enable(t) ==
    /\ pc[t] = "ready"
    /\ ncalls < MaxMonitorCalls
    /\ pc' = [pc EXCEPT ![t] = "enable_send"]
    /\ ncalls' = ncalls + 1
    /\ UNCHANGED << mappings, kernel, chan, txAlive, wstate, sampling, ack,
                    out, ctx, ret, pre, lastmon, removed, ticks, activeTicks, input, output >>

\* Monitor::enable(): self.monitor_tx.send(StartStats) returns, and with it
\* enable().
enable_send(t) ==
    /\ pc[t] = "enable_send"
    /\ SendStart
    /\ pc' = [pc EXCEPT ![t] = "ready"]
    /\ UNCHANGED << mappings, kernel, txAlive, wstate, sampling, out, ctx,
                    ret, pre, lastmon, removed, ncalls, ticks, activeTicks, input, output >>

\* Monitor::disable() is entered by thread t.
disable(t) ==
    /\ pc[t] = "ready"
    /\ ncalls < MaxMonitorCalls
    /\ pc' = [pc EXCEPT ![t] = "disable_send"]
    /\ ncalls' = ncalls + 1
    /\ UNCHANGED << mappings, kernel, chan, txAlive, wstate, sampling, ack,
                    out, ctx, ret, pre, lastmon, removed, ticks, activeTicks, input, output >>

\* Monitor::disable(): self.monitor_tx.send(StopStats(tx)) returns.
disable_send(t) ==
    /\ pc[t] = "disable_send"
    /\ SendStop(t)
    /\ pc' = [pc EXCEPT ![t] = "disable_wait"]
    /\ UNCHANGED << mappings, kernel, txAlive, wstate, sampling, out, ctx,
                    ret, pre, lastmon, removed, ncalls, ticks, activeTicks, input, output >>

\* Monitor::disable(): rx.recv() returns, and with it disable().
disable_return(t) ==
    /\ pc[t] = "disable_wait"
    /\ RecvAck(t)
    /\ pc' = [pc EXCEPT ![t] = "ready"]
    /\ UNCHANGED << mappings, kernel, txAlive, wstate, sampling, out, ctx,
                    ret, pre, lastmon, removed, ncalls, ticks, activeTicks, input, output >>

\* The handle is dropped, no call being in progress: the SyncSender goes.
drop_monitor ==
    /\ txAlive
    /\ \A t \in Threads : pc[t] = "ready"
    /\ pc' = [t \in Threads |-> "dropped"]
    /\ txAlive' = FALSE
    /\ UNCHANGED << mappings, kernel, chan, wstate, sampling, ack, out, ctx,
                    ret, pre, lastmon, removed, ncalls, ticks, activeTicks, input, output >>

\* Monitor::new(): an empty channel, the worker waiting in Idle.
InitMonitor == Init

NextMonitor ==
    \/ \E t \in Threads : enable(t)
    \/ \E t \in Threads : enable_send(t)
    \/ \E t \in Threads : disable(t)
    \/ \E t \in Threads : disable_send(t)
    \/ \E t \in Threads : disable_return(t)
    \/ drop_monitor
    \/ monitor_thread_idle
    \/ monitor_thread_active
    \/ monitor_timeout
    \/ monitor_print

SpecMonitor == InitMonitor /\ [][NextMonitor]_vars

\* The scheduler runs the worker thread whenever it can take a step
\* (receive a message, see the channel closed, finish a sample), and a
\* caller blocked in send or recv goes on once it is unblocked.
FairMonitor ==
    /\ WF_vars(monitor_thread_idle)
    /\ WF_vars(monitor_thread_active)
    /\ WF_vars(monitor_print)
    /\ \A t \in Threads : WF_vars(disable_send(t))
    /\ \A t \in Threads : WF_vars(disable_return(t))

SpecMonitorFair == SpecMonitor /\ FairMonitor

(***************************************************************************)
(* The swap accounting (swap.rs; AnonInfo::format in main.rs): the         *)
(* quantities derived from one AnonInfo, in usize arithmetic.              *)
(***************************************************************************)
\* Largest page count the kernel reports.
MaxPages == 16

\* The arithmetic panicked ("attempt to subtract/multiply with overflow").
Overflowed == -1

\* a - b on unsigned values: a build with overflow checks panics when
\* b > a, one without wraps.
Sub(a, b, overflowChecks) ==
    IF a = Overflowed \/ b = Overflowed THEN Overflowed
    ELSE IF a >= b THEN a - b
    ELSE IF overflowChecks THEN Overflowed
    ELSE a - b + 2 ^ UsizeBits

\* a * b on unsigned values, likewise.
Mul(a, b, overflowChecks) ==
    IF a = Overflowed \/ b = Overflowed THEN Overflowed
    ELSE IF a * b <= UsizeMax THEN a * b
    ELSE IF overflowChecks THEN Overflowed
    ELSE (a * b) % (2 ^ UsizeBits)

\* AnonInfo::allocated(): (ani_max - ani_free) * PAGE_SIZE
allocated(a, oc) == Mul(Sub(a.ani_max, a.ani_free, oc), PAGE_SIZE, oc)

\* AnonInfo::reserved(): ani_resv * PAGE_SIZE - allocated()
reserved(a, oc) == Sub(Mul(a.ani_resv, PAGE_SIZE, oc), allocated(a, oc), oc)

\* AnonInfo::available(): (ani_max - ani_resv) * PAGE_SIZE
available(a, oc) == Mul(Sub(a.ani_max, a.ani_resv, oc), PAGE_SIZE, oc)

\* AnonInfo::total(): ani_max * PAGE_SIZE
total(a, oc) == Mul(a.ani_max, PAGE_SIZE, oc)

\* The four quantities as the display computes them, or the panic.
Quantities(a, oc) ==
    LET q == [allocated |-> allocated(a, oc), reserved |-> reserved(a, oc),
              available |-> available(a, oc), total |-> total(a, oc)]
    IN  IF Overflowed \in {q.allocated, q.reserved, q.available, q.total}
        THEN [fn |-> "AnonInfo", kind |-> "Panic"]
        ELSE [fn |-> "AnonInfo", kind |-> "Ok", q |-> q]

\* The AnonInfo values swapctl(SC_AINFO) may fill in.
AnonInfos ==
    [fn : {"AnonInfo"}, ani_max : 0 .. MaxPages, ani_free : 0 .. MaxPages,
     ani_resv : 0 .. MaxPages]

\* AnonInfoDisplay::fmt / AnonInfo::format: the quantities are derived.
display ==
    /\ input.fn = "AnonInfo"
    /\ output = NoCall
    /\ \E overflowChecks \in BOOLEAN :
          output' = Quantities(input, overflowChecks)
    /\ UNCHANGED << sessionVars, input >>

\* AnonInfo::fetch() has returned some AnonInfo.
InitAnon ==
    /\ New
    /\ input \in AnonInfos
    /\ output = NoCall

NextAnon == display

SpecAnon == InitAnon /\ [][NextAnon]_vars

(***************************************************************************)
(* The kernel statistics reader (kstat.rs): kstat_read_physmem looks up    *)
(* the system_pages record, reads it and decodes it with from_kstat.       *)
(***************************************************************************)
\* Records the filter may match.
MaxMatches == 3

\* The fields of PhysicalMemoryStats, in the order the struct literal of
\* from_kstat unwraps them.
StatOrder ==
    << "physmem", "freemem", "availrmem", "lotsfree", "desfree", "minfree" >>

StatNames == {StatOrder[i] : i \in 1 .. Len(StatOrder)}

\* Option<u64>::None
None == -1

\* A named datum of type UInt64, and one of another type.
UInt64(name, value) == [name |-> name, type |-> "UInt64", value |-> value]
Int64(name, value) == [name |-> name, type |-> "Int64", value |-> value]

\* The value each statistic has in the records below (all different).
ValueOf(name) == CHOOSE i \in 1 .. Len(StatOrder) : StatOrder[i] = name

\* The smallest page count whose size in bytes does not fit the word.
BigPages == (2 ^ UsizeBits) \div PAGE_SIZE

\* The ways the name occurs in a record: not at all, once as UInt64, once
\* with another type, twice; freemem also once with a page count whose
\* byte size overflows.
Occurrences(name) ==
    LET u == UInt64(name, ValueOf(name))
        o == Int64(name, ValueOf(name))
    IN  {<< >>, << u >>, << o >>, << u, u >>, << u, o >>}
        \cup (IF name = "freemem" THEN {<< UInt64(name, BigPages) >>}
              ELSE {})

\* A statistic from_kstat has no use for, present or not, of either type.
OtherOccurrences ==
    {<< >>, << UInt64("pagesfree", 7) >>, << Int64("pagesfree", 7) >>}

Reverse(s) == [i \in 1 .. Len(s) |-> s[Len(s) + 1 - i]]

\* The named records the kernel may return, the fields in either order.
NamedRecords ==
    LET forward ==
            {f1 \o f2 \o f3 \o f4 \o f5 \o f6 \o other :
                 f1 \in Occurrences(StatOrder[1]),
                 f2 \in Occurrences(StatOrder[2]),
                 f3 \in Occurrences(StatOrder[3]),
                 f4 \in Occurrences(StatOrder[4]),
                 f5 \in Occurrences(StatOrder[5]),
                 f6 \in Occurrences(StatOrder[6]),
                 other \in OtherOccurrences}
    IN  forward \cup {Reverse(r) : r \in forward}

\* kstat_rs::Data: the named kind with its fields, or another kind.
Named(named_stats) == [kind |-> "Named", named |-> named_stats]
Raw == [kind |-> "Raw"]

\* The record with each statistic once, as UInt64.
CompleteRecord ==
    [i \in 1 .. Len(StatOrder) |-> UInt64(StatOrder[i], ValueOf(StatOrder[i]))]

KstatErr(error, name) ==
    [fn |-> "kstat_read_physmem", kind |-> "Err", error |-> error,
     name |-> name]

KstatPanic == [fn |-> "kstat_read_physmem", kind |-> "Panic"]

\* kstat_value_u64: the value of a UInt64 datum, an error for any other.
kstat_value_u64(datum) ==
    IF datum.type = "UInt64"
    THEN [kind |-> "Ok", value |-> datum.value]
    ELSE KstatErr("TypeMismatch", datum.name)

\* Option::is_some
IsSome(which_value) == which_value # None

\* The for loop of from_kstat from field i on, with the Options so far.
RECURSIVE ForNamed(_, _, _)
ForNamed(named, i, opts) ==
    IF i > Len(named)
    THEN [kind |-> "Ok", opts |-> opts]
    ELSE LET nst == named[i] IN
         IF nst.name \notin StatNames
         THEN ForNamed(named, i + 1, opts)
         ELSE IF IsSome(opts[nst.name])
         THEN KstatErr("DuplicateField", nst.name)
         ELSE LET value == kstat_value_u64(nst) IN
              IF value.kind # "Ok"
              THEN value
              ELSE ForNamed(named, i + 1,
                            [opts EXCEPT ![nst.name] = value.value])

\* The struct literal of from_kstat from field i on: each Option is
\* unwrapped in turn, and freemem is multiplied by the page size there.
RECURSIVE Unwrap(_, _, _, _)
Unwrap(opts, i, stats, overflowChecks) ==
    IF i > Len(StatOrder)
    THEN [fn |-> "kstat_read_physmem", kind |-> "Ok", stats |-> stats]
    ELSE LET name == StatOrder[i]
             value == IF name = "freemem"
                      THEN Mul(opts[name], PAGE_SIZE, overflowChecks)
                      ELSE opts[name]
         IN  IF opts[name] = None
             THEN KstatErr("MissingField", name)
             ELSE IF value = Overflowed
             THEN KstatPanic
             ELSE Unwrap(opts, i + 1, [stats EXCEPT ![name] = value],
                         overflowChecks)

from_kstat(kst, overflowChecks) ==
    IF kst.kind # "Named"
    THEN KstatErr("NotNamed", "")
    ELSE LET scanned == ForNamed(kst.named, 1, [n \in StatNames |-> None])
         IN  IF scanned.kind # "Ok"
             THEN scanned
             ELSE Unwrap(scanned.opts, 1, [n \in StatNames |-> None],
                         overflowChecks)

\* The calls of kstat_read_physmem: the number of records the filter
\* matches, whether kstat.read works, and the data of the first record.
KstatCalls ==
    [fn : {"kstat_read_physmem"}, matches : {1}, readOk : {TRUE},
     data : {Raw} \cup {Named(r) : r \in NamedRecords}]
    \cup [fn : {"kstat_read_physmem"}, matches : 0 .. MaxMatches,
          readOk : BOOLEAN, data : {Raw, Named(CompleteRecord)}]

\* filter.next() is None on the first call, and is Some on the second.
FoundNone(matches) == matches = 0
FoundTooManyNever(matches) == FALSE
FoundTooMany(matches) == matches - 1 > 0

\* kstat_read_physmem up to the return of kstat.read (lines 12-19).
kstat_read_physmem ==
    /\ input.fn = "kstat_read_physmem"
    /\ output = NoCall
    /\ output' =
           IF FoundNone(input.matches)
           THEN KstatErr("NotFound", "") @@ [reads |-> 0, decodes |-> 0]
           ELSE IF FoundTooMany(input.matches)
           THEN KstatErr("Ambiguous", "") @@ [reads |-> 0, decodes |-> 0]
           ELSE IF ~input.readOk
           THEN KstatErr("ReadFailed", "") @@ [reads |-> 1, decodes |-> 0]
           ELSE [fn |-> "kstat_read_physmem", kind |-> "Read",
                 data |-> input.data, reads |-> 1, decodes |-> 0]
    /\ UNCHANGED << sessionVars, input >>

\* PhysicalMemoryStats::from_kstat(&data) (line 20).
from_kstat_call ==
    /\ output.fn = "kstat_read_physmem"
    /\ output.kind = "Read"
    /\ \E overflowChecks \in BOOLEAN :
           output' = from_kstat(output.data, overflowChecks)
                         @@ [reads |-> output.reads, decodes |-> 1]
    /\ UNCHANGED << sessionVars, input >>

InitKstat == New /\ input \in KstatCalls /\ output = NoCall

NextKstat == kstat_read_physmem \/ from_kstat_call

SpecKstat == InitKstat /\ [][NextKstat]_vars

(***************************************************************************)
(* The session used through its registry operations only: one caller       *)
(* thread, which never calls enable_monitor or disable_monitor itself, so   *)
(* that every signal comes from the bracket of a swap_touch or swap_rm.     *)
(***************************************************************************)
InitRegistry == Init

NextRegistry ==
    \/ list
    \/ swap_reserve
    \/ swap_noreserve
    \/ swap_touch
    \/ touch_enable
    \/ touch_write
    \/ touch_disable
    \/ touch_return
    \/ swap_rm
    \/ rm_enable
    \/ rm_munmap
    \/ rm_disable
    \/ rm_return
    \/ drop_session
    \/ monitor_thread_idle
    \/ monitor_thread_active
    \/ monitor_timeout
    \/ monitor_print

SpecRegistry == InitRegistry /\ [][NextRegistry]_vars

(***************************************************************************)
(* The session used by one caller thread that pairs its monitor calls: it  *)
(* calls enable_monitor only with no enable of its own open, disable_monitor*)
(* only to close one, and starts no swap_touch or swap_rm (which bracket    *)
(* their own work) in between.                                              *)
(***************************************************************************)
\* The caller has called enable_monitor and not yet disable_monitor.
EnableOpen == lastmon = "enable"

InitPaired == Init

NextPaired ==
    \/ list
    \/ swap_reserve
    \/ swap_noreserve
    \/ ~EnableOpen /\ swap_touch
    \/ touch_enable
    \/ touch_write
    \/ touch_disable
    \/ touch_return
    \/ ~EnableOpen /\ swap_rm
    \/ rm_enable
    \/ rm_munmap
    \/ rm_disable
    \/ rm_return
    \/ ~EnableOpen /\ enable_monitor
    \/ EnableOpen /\ disable_monitor
    \/ disable_monitor_return
    \/ drop_session
    \/ monitor_thread_idle
    \/ monitor_thread_active
    \/ monitor_timeout
    \/ monitor_print

SpecPaired == InitPaired /\ [][NextPaired]_vars

(***************************************************************************)
(* Properties.                                                             *)
(***************************************************************************)
\* Statistics lines among the lines o.
StatLines(o) == Len(SelectSeq(o, LAMBDA l : l = "S"))

\* The session thread's last call was one of ops, it has returned, and no
\* call has started since.
Returned(ops) == pc[Main] = "ready" /\ ctx.op \in ops /\ ret.op = ctx.op

\* The session thread is past the lookup of a swap_touch or swap_rm call.
InCall == pc[Main] \in {"touch_enable", "touch_write", "touch_disable",
                        "touch_wait", "rm_enable", "rm_munmap",
                        "rm_disable", "rm_wait"}

\* The session thread is inside disable, waiting for the acknowledgment.
Waiting == pc[Main] \in {"touch_wait", "rm_wait", "disable_wait"}

\* C1: once disable() has returned, and until the next enable() is sent,
\* no step prints a statistics line, in every interleaving of the session
\* thread, the worker and the timeout.
C1_NoStatLineAfterDisable ==
    [][lastmon = "disable" => StatLines(out') = StatLines(out)]_vars

\* C1 witness: a disable() that followed an activation in which a
\* statistics line was printed has returned, the worker alive and idle.
C1_Witness ==
    /\ lastmon = "disable"
    /\ Returned({"touch"})
    /\ ret.kind = "Ok"
    /\ wstate = "Idle"
    /\ out = << "H", "S" >>

C3_TouchFirstTrueThenFalse ==
    /\ \A i \in 1 .. Len(mappings) :
           mappings[i].allocated <=> mappings[i].touches > 0
    /\ Returned({"touch"}) /\ ret.kind = "Ok" =>
           /\ mappings[ctx.idx].addr = ret.arg
           /\ mappings[ctx.idx].allocated
           /\ ret.flag <=> mappings[ctx.idx].touches = 1

\* C3 witness: a second touch of an entry has returned false.
C3_Witness ==
    /\ Returned({"touch"})
    /\ ret.kind = "Ok"
    /\ ~ret.flag
    /\ mappings[ctx.idx].touches = 2

\* C4: a reserve(s) or no_reserve(s) that returns Ok has appended exactly
\* one entry [address returned, s, reserved for reserve and not for
\* no_reserve, not allocated] at the end of the registry and has left the
\* entries that were there as they were.
C4_MapAppendsOneEntry ==
    Returned({"reserve", "no_reserve"}) /\ ret.kind = "Ok" =>
        mappings = Append(pre, [addr |-> ret.addr, size |-> ret.arg,
                                reserved |-> (ret.op = "reserve"),
                                allocated |-> FALSE, touches |-> 0])

\* C4 witness: a no_reserve for which mmap succeeded has returned, the
\* registry holding an allocated entry before it.
C4_Witness ==
    /\ Returned({"no_reserve"})
    /\ ret.kind = "Ok"
    /\ ctx.osrv \in MmapBases
    /\ Len(pre) = 1
    /\ pre[1].allocated

\* C5 (the claim as stated): when mmap returns its failure value,
\* reserve/no_reserve returns MappingFailed and the registry is unchanged.
C5_MmapFailureIsReported ==
    Returned({"reserve", "no_reserve"}) /\ ctx.osrv = MAP_FAILED =>
        ret.kind = "MappingFailed" /\ mappings = pre

\* C6: an address removed with success matches no entry until a new
\* mapping with that address is created; a touch or remove of such an
\* address never gets past the lookup and returns UnknownMapping (the only
\* other call that can have returned on it is the successful remove itself).
C6_RemovedIsUnknown ==
    /\ \A a \in removed : Find(mappings, a) = 0
    /\ InCall => ctx.addr \notin removed
    /\ Returned({"touch", "rm"}) /\ ret.arg \in removed =>
           \/ ret.kind = "UnknownMapping"
           \/ ret.op = "rm" /\ ret.kind = "Ok" /\ Find(pre, ret.arg) # 0

\* C6 witness: a touch of an address removed earlier has returned
\* UnknownMapping, another entry still being in the registry.
C6_Witness ==
    /\ Returned({"touch"})
    /\ ret.kind = "UnknownMapping"
    /\ ret.arg \in removed
    /\ Len(mappings) = 1

\* C7: a remove whose munmap call failed returns UnmapFailed and leaves the
\* registry exactly as it was when the call started.
C7_UnmapFailureLeavesRegistry ==
    /\ Returned({"rm"}) /\ ctx.oscalls = 1 /\ ctx.osrv # 0 =>
           ret.kind = "UnmapFailed" /\ mappings = pre
    /\ Returned({"rm"}) /\ ret.kind = "UnmapFailed" =>
           ctx.oscalls = 1 /\ ctx.osrv # 0 /\ mappings = pre

\* C7 witness: the remove of an allocated entry has failed in munmap, the
\* entry is where it was, second of two.
C7_Witness ==
    /\ Returned({"rm"})
    /\ ret.kind = "UnmapFailed"
    /\ Len(mappings) = 2
    /\ Find(mappings, ret.arg) = 2
    /\ mappings[2].allocated

\* C8: a step that starts touch(a) or remove(a) with a matching no entry
\* returns UnknownMapping at once, leaves the registry, the kernel's
\* mappings and both channels as they were: no OS call, no signal.
C8_UnknownMappingDoesNothing ==
    [][ncalls' = ncalls + 1 /\ ctx'.op \in {"touch", "rm"}
           /\ Find(mappings, ctx'.addr) = 0 =>
        /\ ret'.kind = "UnknownMapping"
        /\ ret'.op = ctx'.op
        /\ ret'.arg = ctx'.addr
        /\ pc' = pc
        /\ mappings' = mappings
        /\ kernel' = kernel
        /\ chan' = chan
        /\ ack' = ack
        /\ ctx'.oscalls = 0
        /\ ctx'.signals = 0]_vars

\* C8 witness: a remove of an address that matches none of the two entries
\* has returned UnknownMapping.
C8_Witness ==
    /\ Returned({"rm"})
    /\ ret.kind = "UnknownMapping"
    /\ Len(mappings) = 2
    /\ Find(mappings, ret.arg) = 0

\* C9: a step in which the worker receives StartStats in Active or
\* StopStats in Idle leaves it panicked and prints nothing; a panicked
\* worker stays panicked, prints nothing and receives nothing (the channel
\* is and stays empty).
C9_ProtocolViolationIsFatal ==
    [][/\ (/\ Len(chan') < Len(chan)
           /\ \/ wstate = "Active" /\ Head(chan).type = "StartStats"
              \/ wstate = "Idle" /\ Head(chan).type = "StopStats")
          => wstate' = "Panicked" /\ out' = out
       /\ wstate = "Panicked"
          => wstate' = "Panicked" /\ out' = out /\ chan = << >>
             /\ chan' = << >>]_vars

\* C9 witness: two enable_monitor calls in a row; the worker printed the
\* header for the first and panicked on the second.
C9_Witness ==
    /\ wstate = "Panicked"
    /\ out = << "H" >>
    /\ ncalls = 2
    /\ ctx.op = "enable_monitor"

\* C10: what touch and remove of an entry return, and the registry they
\* leave, is decided by the registry before the call and the outcome of
\* the OS call alone, whether or not the monitor handshake failed.
C10_HandshakeFailureNotPropagated ==
    /\ Returned({"touch"}) /\ Find(pre, ret.arg) # 0 =>
           LET i == Find(pre, ret.arg) IN
           /\ ret.kind = "Ok"
           /\ ret.flag = ~pre[i].allocated
           /\ mappings = [pre EXCEPT ![i].allocated = TRUE,
                                     ![i].touches = Touched(@)]
           /\ ctx.writes = PageAddrs(pre[i].addr,
                                     WrappingAdd(pre[i].addr, pre[i].size))
    /\ Returned({"rm"}) /\ Find(pre, ret.arg) # 0 =>
           /\ ctx.oscalls = 1
           /\ ctx.osrv = 0 => ret.kind = "Ok"
                              /\ mappings = Retain(pre, ret.arg)
           /\ ctx.osrv # 0 => ret.kind = "UnmapFailed" /\ mappings = pre

\* C10 witness: the remove of an allocated entry has returned Ok although
\* the worker was gone and both monitor calls failed.
C10_Witness ==
    /\ Returned({"rm"})
    /\ ret.kind = "Ok"
    /\ ctx.allocated
    /\ ctx.sendFailed
    /\ ctx.signals = 2
    /\ ~RxAlive

\* C11 (the claim as stated): a thread inside enable() is never held up at
\* its send: whatever the worker has or has not consumed, and with the
\* signal channel full or closed, the send returns and enable() with it.
C11_EnableNeverBlocks ==
    \A t \in Threads : pc[t] = "enable_send" => CanSend

\* Warnings of failed samples among the lines o.
WarnLines(o) == Len(SelectSeq(o, LAMBDA l : l = "W"))

\* The place of the last header among the lines o, 0 when there is none.
LastHeader(o) ==
    LET hs == {i \in 1 .. Len(o) : o[i] = "H"}
    IN  IF hs = {} THEN 0 ELSE CHOOSE i \in hs : \A j \in hs : j <= i

\* The lines of the current (or last) activation: those after its header.
ActivationLines(o) == SubSeq(o, LastHeader(o) + 1, Len(o))

Messages == {StartStats} \cup {StopStats(t) : t \in Threads}

\* The monitor bracket of a touch or remove that the worker acknowledged:
\* exactly one header row was printed since the enable signal was sent, and
\* it was there when the acknowledgment arrived.
HeaderBeforeDisableReturns ==
    /\ pc[Main] \in {"touch_wait", "rm_wait"} /\ ack[Main] = "sent" =>
           HeaderLines(out) = ctx.hdrs + 1
    /\ Returned({"touch", "rm"}) /\ ctx.signals = 2 /\ ~ctx.sendFailed =>
           HeaderLines(out) = ctx.hdrs + 1
    /\ pc[Main] \in {"touch_wait", "rm_wait"} /\ ack[Main] = "open"
       /\ chan # << >> => chan[Len(chan)] = StopStats(Main)

\* C13: the worker prints a header row exactly in the step in which it
\* receives the enable signal in Idle and enters Active, one row per
\* activation, and a statistics line only after the header of its
\* activation; the channel is first in, first out (a sender appends, the
\* worker takes the oldest signal), and the header of a call's activation
\* is printed before the acknowledgment of its disable is there.
C13_OneHeaderPerActivation ==
    [][/\ wstate = "Idle" /\ wstate' = "Active" =>
              /\ chan # << >>
              /\ Head(chan) = StartStats
              /\ chan' = Tail(chan)
              /\ out' = Append(out, "H")
       /\ HeaderLines(out') # HeaderLines(out) =>
              wstate = "Idle" /\ wstate' = "Active"
       /\ StatLines(out') # StatLines(out) =>
              /\ wstate = "Active"
              /\ LastHeader(out) > 0
              /\ HeaderLines(out') = HeaderLines(out)
       /\ chan' # chan =>
              \/ \E m \in Messages : chan' = Append(chan, m)
              \/ chan' = Tail(chan)
              \/ chan' = << >> /\ wstate' \in {"Panicked", "Exited"}
       /\ HeaderBeforeDisableReturns'
      ]_vars

\* C13 witness: the second touch has returned, acknowledged; its activation
\* printed the second header row, after the first activation's lines.
C13_Witness ==
    /\ Returned({"touch"})
    /\ ~ctx.sendFailed
    /\ ctx.hdrs = 1
    /\ out = << "H", "S", "H" >>

\* C14: touch sends enable before its first page write and its disable
\* after the last one, and has completed disable when it returns; remove
\* sends enable before munmap and disable after it exactly when the entry
\* was allocated at the lookup, and no signal at all when it was not.
C14_MonitorBrackets ==
    /\ pc[Main] = "touch_write" =>
           ctx.signals = 1 /\ ctx.writes = {} /\ lastmon = "enable"
    /\ ctx.op = "touch" /\ ctx.writes # {} => ctx.signals >= 1
    /\ ctx.op = "touch" /\ ctx.signals = 2 =>
           /\ pc[Main] \notin {"touch_enable", "touch_write", "touch_disable"}
           /\ ctx.writes = PageAddrs(ctx.startAddr, ctx.endAddr)
    /\ Returned({"touch"}) /\ ret.kind = "Ok" =>
           ctx.signals = 2 /\ lastmon = "disable"
    /\ pc[Main] = "rm_munmap" =>
           /\ ctx.oscalls = 0
           /\ ctx.signals = IF ctx.allocated THEN 1 ELSE 0
           /\ ctx.allocated => lastmon = "enable"
    /\ ctx.op = "rm" /\ ctx.oscalls = 1 =>
           /\ ctx.allocated = pre[Find(pre, ctx.addr)].allocated
           /\ ctx.signals >= 1 <=> ctx.allocated
    /\ ctx.op = "rm" /\ ctx.signals = 2 =>
           ctx.oscalls = 1 /\ pc[Main] \notin {"rm_munmap", "rm_disable"}
    /\ Returned({"rm"}) /\ ret.kind # "UnknownMapping" =>
           IF pre[Find(pre, ret.arg)].allocated
           THEN ctx.signals = 2 /\ lastmon = "disable"
           ELSE ctx.signals = 0

\* C14 witness: the remove of an entry that had been touched has returned
\* Ok, both signals delivered and the worker back in Idle.
C14_Witness ==
    /\ Returned({"rm"})
    /\ ret.kind = "Ok"
    /\ pre[Find(pre, ret.arg)].allocated
    /\ ctx.signals = 2
    /\ ~ctx.sendFailed
    /\ wstate = "Idle"

\* The worker is waiting for a signal (in recv or recv_timeout) on a
\* channel that is empty and has no sender left.
WaitingOnClosed ==
    /\ ~txAlive
    /\ chan = << >>
    /\ wstate \in {"Idle", "Active"}
    /\ ~sampling

\* C15: when the worker waits, in Idle or in Active, on a channel that has
\* been closed, it can take the step that ends it, and the only step it
\* takes is that one: no line is printed, no sample is started; once it has
\* ended it stays so and prints nothing.
C15_ClosedChannelEndsWorker ==
    [][/\ WaitingOnClosed =>
              /\ ENABLED (monitor_thread_idle \/ monitor_thread_active)
              /\ out' = out
              /\ sampling' = FALSE
              /\ wstate' \in {wstate, "Exited"}
              /\ wstate' = wstate => WaitingOnClosed'
       /\ wstate = "Exited" => wstate' = "Exited" /\ out' = out
      ]_vars

\* C15 witness: the session was dropped while the worker was in an
\* activation that had printed a line; the worker has ended.
C15_Witness ==
    /\ wstate = "Exited"
    /\ ~txAlive
    /\ chan = << >>
    /\ out = << "H", "S" >>

\* C16 (the claim as stated): for every AnonInfo with ani_max >= ani_free
\* and ani_max >= ani_resv the four quantities are derived and
\* allocated + reserved + available = total in usize arithmetic.
C16_QuantitiesAddUp ==
    /\ output.fn = "AnonInfo"
    /\ input.ani_max >= input.ani_free
    /\ input.ani_max >= input.ani_resv
    => /\ output.kind = "Ok"
       /\ (output.q.allocated + output.q.reserved + output.q.available)
              % (2 ^ UsizeBits) = output.q.total

\* How often the name occurs in the record, whether it occurs exactly once
\* as UInt64, and whether the error names a field that is at fault.
Count(named, name) ==
    Cardinality({i \in DOMAIN named : named[i].name = name})

OnceAsUInt64(named, name) ==
    /\ Count(named, name) = 1
    /\ \A i \in DOMAIN named :
           named[i].name = name => named[i].type = "UInt64"

Offending(named, error, name) ==
    /\ name \in StatNames
    /\ \/ error = "MissingField" /\ Count(named, name) = 0
       \/ error = "DuplicateField" /\ Count(named, name) >= 2
       \/ /\ error = "TypeMismatch"
          /\ \E i \in DOMAIN named :
                 named[i].name = name /\ named[i].type # "UInt64"

Decoded == output.fn = "kstat_read_physmem" /\ output.decodes = 1

IsStat(nst) == nst.name \in StatNames

\* C17 (the claim as stated): decoding a named record succeeds if and only
\* if each of the six statistics occurs exactly once as UInt64; otherwise
\* it fails with MissingField, DuplicateField or TypeMismatch for a field
\* at fault, with no statistics in the result; and the result is the one
\* of the record without its fields of other names.
C17_SixFieldsOnceEach ==
    Decoded /\ input.data.kind = "Named" =>
        LET named == input.data.named IN
        /\ output.kind = "Ok"
               <=> \A name \in StatNames : OnceAsUInt64(named, name)
        /\ output.kind = "Ok" =>
               \A name \in StatNames : output.stats[name] # None
        /\ output.kind # "Ok" =>
               /\ output.kind = "Err"
               /\ Offending(named, output.error, output.name)
               /\ "stats" \notin DOMAIN output
        /\ \A overflowChecks \in BOOLEAN :
               from_kstat(input.data, overflowChecks) =
                   from_kstat(Named(SelectSeq(named, IsStat)),
                              overflowChecks)

\* C18: kstat_read_physmem fails with NotFound when the filter matches no
\* record and with Ambiguous when it matches two or more, and then no
\* record has been read or decoded; a record is read or decoded only when
\* exactly one matches.
C18_OneMatchOrError ==
    output.fn = "kstat_read_physmem" =>
        /\ input.matches = 0 =>
               /\ output.kind = "Err" /\ output.error = "NotFound"
               /\ output.reads = 0 /\ output.decodes = 0
        /\ input.matches >= 2 =>
               /\ output.kind = "Err" /\ output.error = "Ambiguous"
               /\ output.reads = 0 /\ output.decodes = 0
        /\ output.reads > 0 \/ output.decodes > 0 => input.matches = 1
        /\ output.kind = "Err" /\ output.error \in {"NotFound", "Ambiguous"}
               => input.matches # 1

\* Two records match, the first one complete and readable: the call has
\* failed with Ambiguous.
C18_Witness ==
    /\ input.fn = "kstat_read_physmem"
    /\ input.matches = 2
    /\ input.readOk
    /\ input.data = Named(CompleteRecord)
    /\ output.fn = "kstat_read_physmem"
    /\ output.kind = "Err"
    /\ output.error = "Ambiguous"

\* ms without its entry at index i, the others in their order.
Without(ms, i) ==
    [j \in 1 .. Len(ms) - 1 |-> IF j < i THEN ms[j] ELSE ms[j + 1]]

\* The step is the return of a remove that succeeded.
RemoveReturnsOk ==
    /\ pc[Main] \in {"rm_munmap", "rm_wait"}
    /\ pc'[Main] = "ready"
    /\ ret'.kind = "Ok"

\* C19: the registry is kept in creation order, and list() returns it as it
\* is: every step either leaves each position with its entry (touch and
\* list among them), or appends the entry a reserve/no_reserve created at
\* the end, or is a successful remove and deletes exactly one entry, the
\* one with the given address, leaving the others in their order; a
\* successful remove is always of the last kind, and a list() step returns
\* the registry and changes nothing.
C19_ListInCreationOrder ==
    [][/\ \/ /\ Len(mappings') = Len(mappings)
              /\ \A j \in 1 .. Len(mappings) :
                     /\ mappings'[j].addr = mappings[j].addr
                     /\ mappings'[j].size = mappings[j].size
                     /\ mappings'[j].reserved = mappings[j].reserved
              /\ ~RemoveReturnsOk
           \/ /\ ret'.op \in {"reserve", "no_reserve"}
              /\ ret'.kind = "Ok"
              /\ ncalls' = ncalls + 1
              /\ \E m \in {mappings'[Len(mappings')]} :
                     m.addr = ret'.addr /\ mappings' = Append(mappings, m)
           \/ /\ RemoveReturnsOk
              /\ ret'.op = "rm"
              /\ \E i \in 1 .. Len(mappings) :
                     /\ mappings[i].addr = ret'.arg
                     /\ mappings' = Without(mappings, i)
       /\ ctx'.op = "touch" => Len(mappings') = Len(mappings)
       /\ ctx'.op = "list" /\ ncalls' = ncalls + 1 =>
              /\ ret'.list = mappings
              /\ UNCHANGED << mappings, kernel, chan, ack, out, pc, lastmon >>
      ]_vars

\* A remove of the second of three entries has succeeded: the first and
\* the third are left, in that order.
C19_Witness ==
    /\ Returned({"rm"})
    /\ ret.kind = "Ok"
    /\ Len(pre) = 3
    /\ pre[2].addr = ret.arg
    /\ mappings = << pre[1], pre[3] >>

\* The step is the lookup of a swap_touch that found the entry at index j.
TouchOf(j) ==
    /\ pc[Main] = "ready"
    /\ ncalls' = ncalls + 1
    /\ ctx'.op = "touch"
    /\ ctx'.idx = j
    /\ ctx'.addr = mappings[j].addr

\* C20: in every step each entry that stays in the registry keeps its
\* address, size and reserved flag; its allocated flag is never reset, and
\* is set only by a swap_touch of that entry's address that found that
\* entry, no other entry changing in the step; an entry is created with
\* the flag false, and a creation or a removal leaves the other entries
\* as they are.
C20_EntryFieldsFixed ==
    [][\/ /\ Len(mappings') = Len(mappings)
          /\ \A j \in 1 .. Len(mappings) :
                 /\ mappings'[j].addr = mappings[j].addr
                 /\ mappings'[j].size = mappings[j].size
                 /\ mappings'[j].reserved = mappings[j].reserved
                 /\ mappings[j].allocated => mappings'[j].allocated
                 /\ mappings'[j].allocated # mappings[j].allocated =>
                        TouchOf(j)
                 /\ mappings'[j] # mappings[j] => TouchOf(j)
       \/ /\ Len(mappings') = Len(mappings) + 1
          /\ SubSeq(mappings', 1, Len(mappings)) = mappings
          /\ ~mappings'[Len(mappings')].allocated
       \/ /\ Len(mappings') = Len(mappings) - 1
          /\ \E i \in 1 .. Len(mappings) : mappings' = Without(mappings, i)
      ]_vars

\* A touch of the second of two entries has returned: that entry's flag
\* went from false to true, and the first entry is as it was, its flag
\* false.
C20_Witness ==
    /\ Returned({"touch"})
    /\ ret.kind = "Ok"
    /\ Len(mappings) >= 2
    /\ ctx.idx = 2
    /\ ~pre[2].allocated
    /\ mappings[2].allocated
    /\ mappings[1] = pre[1]
    /\ ~mappings[1].allocated

C22_NoProtocolViolation ==
    /\ wstate # "Panicked"
    /\ chan # << >> /\ wstate = "Active" => Head(chan).type = "StopStats"
    /\ chan # << >> /\ wstate = "Idle" => Head(chan).type = "StartStats"

\* The last of MaxCalls calls, a remove of an allocated entry, has failed
\* at munmap: the brackets of the touch before it and of the remove have
\* been run and the worker is alive in Idle, with both header rows printed.
C22_Witness ==
    /\ Returned({"rm"})
    /\ ret.kind = "UnmapFailed"
    /\ ctx.allocated
    /\ ctx.signals = 2
    /\ ncalls = MaxCalls
    /\ wstate = "Idle"
    /\ HeaderLines(out) = 2

\* No registry operation is in progress on the session thread.
NoOperation == pc[Main] \in {"ready", "dropped"}

\* C23: whenever no registry operation is in progress, the signal channel
\* is empty, no acknowledgment is outstanding, the worker is not Active and
\* no step that prints is enabled; and a remove of an allocated entry that
\* returned UnmapFailed has sent both of its signals, the disable last.
C23_QuiescentBetweenOperations ==
    /\ NoOperation =>
           /\ chan = << >>
           /\ \A t \in Threads : ack[t] \notin {"open", "sent"}
           /\ wstate # "Active"
           /\ ~sampling
           /\ ~ENABLED monitor_timeout
           /\ ~ENABLED monitor_print
           /\ ~ENABLED monitor_thread_active
    /\ Returned({"rm"}) /\ ret.kind = "UnmapFailed" /\ ctx.allocated =>
           /\ ctx.signals = 2
           /\ lastmon = "disable"

\* A remove of an allocated entry has returned UnmapFailed after its
\* bracket printed a statistics line: the worker is back in Idle and the
\* channel is empty.
C23_Witness ==
    /\ Returned({"rm"})
    /\ ret.kind = "UnmapFailed"
    /\ ctx.allocated
    /\ ~ctx.sendFailed
    /\ mappings = pre
    /\ wstate = "Idle"
    /\ chan = << >>
    /\ out = << "H", "H", "S" >>

\* C24: with the worker scheduled fairly, every thread that has entered
\* disable() leaves it: the send returns and the wait for the
\* acknowledgment ends, whatever the worker's state and whatever the other
\* threads holding the handle do.
C24_DisableReturns ==
    \A t \in Threads :
        pc[t] \in {"disable_send", "disable_wait"} ~> pc[t] = "ready"

\* A thread other than the first is waiting in disable() and its StopStats
\* was still queued when the worker panicked: the reply channel has closed
\* and the wait is over.
C24_Witness ==
    /\ pc[2] = "disable_wait"
    /\ ack[2] = "closed"
    /\ wstate = "Panicked"
    /\ pc[Main] = "disable_wait"
    /\ ENABLED disable_return(2)

\* The last line printed is the warning of a failed sample.
LastIsWarning == out # << >> /\ out[Len(out)] = "W"

\* The worker, Active and not sampling, has a StopStats with an open reply
\* channel at the head of the signal channel.
StopStatsNext ==
    /\ wstate = "Active"
    /\ ~sampling
    /\ chan # << >>
    /\ Head(chan).type = "StopStats"
    /\ ack[Head(chan).tx] = "open"

\* C25: a timeout fires only in Active with no sample running and starts
\* one sample; the sample ends by appending exactly one line, a statistics
\* line or (a reader failed) a warning, and leaves the worker Active with
\* the channels as they were; after a failed sample the worker can still
\* take a StopStats, and taking it sends the acknowledgment.
C25_OneSamplePerTimeout ==
    [][/\ ticks' # ticks =>
              /\ wstate = "Active" /\ wstate' = "Active"
              /\ ~sampling /\ sampling'
              /\ ticks' = ticks + 1
              /\ out' = out
       /\ sampling' # sampling => ticks' # ticks \/ (sampling /\ ticks' = ticks)
       /\ sampling /\ ~sampling' =>
              /\ wstate = "Active" /\ wstate' = "Active"
              /\ out' = Append(out, "S") \/ out' = Append(out, "W")
              /\ chan' = chan
              /\ ack' = ack
       /\ sampling /\ sampling' => out' = out /\ wstate' = wstate
       /\ LastIsWarning /\ StopStatsNext =>
              /\ ENABLED monitor_thread_active
              /\ wstate' # wstate =>
                     wstate' = "Idle" /\ ack'[Head(chan).tx] = "sent"
      ]_vars

\* A touch whose bracket saw one timeout with a failing reader has
\* returned with the acknowledgment: only the header row and the warning
\* were written.
C25_Witness ==
    /\ Returned({"touch"})
    /\ ret.kind = "Ok"
    /\ ~ctx.sendFailed
    /\ wstate = "Idle"
    /\ activeTicks = 1
    /\ out = << "H", "W" >>

\* C26: with one caller whose enable and disable calls are paired, the
\* signal channel never holds more than 2 messages, which is less than its
\* capacity, and every send of the caller can return at once: the sends of
\* the brackets, and enable_monitor and disable_monitor themselves
\* whenever the caller may call them.
C26_ChannelNeverFull ==
    /\ Len(chan) <= 2
    /\ Len(chan) < ChanCap
    /\ pc[Main] = "touch_enable" => ENABLED touch_enable
    /\ pc[Main] = "rm_enable" => ENABLED rm_enable
    /\ pc[Main] = "touch_disable" => ENABLED touch_disable
    /\ pc[Main] = "rm_disable" => ENABLED rm_disable
    /\ Ready /\ ~EnableOpen => ENABLED enable_monitor
    /\ Ready /\ EnableOpen => ENABLED disable_monitor

\* The caller has sent the StopStats of a bracket before the worker took
\* the StartStats: both messages are pending.
C26_Witness ==
    /\ chan = << StartStats, StopStats(Main) >>
    /\ wstate = "Idle"
    /\ Waiting

\* C27 (the claim as stated): no two entries of the registry have the same
\* address.
C27_AddressesUnique ==
    \A i, j \in 1 .. Len(mappings) :
        i # j => mappings[i].addr # mappings[j].addr

\* The page loop of the swap_touch in progress, or of the one that has
\* just returned, is over.
PagesWritten ==
    \/ pc[Main] \in {"touch_disable", "touch_wait"}
    \/ Returned({"touch"}) /\ ret.kind = "Ok"

\* ceil(s / PAGE_SIZE)
PagesOf(s) == (s + PAGE_SIZE - 1) \div PAGE_SIZE

\* C28 (the claim as stated): once the page loop of a touch of the entry
\* at address a of size s is over, the addresses written are exactly
\* a + k * PAGE_SIZE for k = 0 .. ceil(s / PAGE_SIZE) - 1, all of them in
\* [a, a + s), and none when s = 0.
C28_OneWritePerPage ==
    PagesWritten =>
        /\ ctx.writes =
               {ctx.addr + k * PAGE_SIZE : k \in 0 .. PagesOf(ctx.size) - 1}
        /\ \A w \in ctx.writes : ctx.addr <= w /\ w < ctx.addr + ctx.size
        /\ ctx.size = 0 => ctx.writes = {}

\* The counters satisfy ani_max >= ani_free and ani_max >= ani_resv.
CountersOrdered(a) == a.ani_max >= a.ani_free /\ a.ani_max >= a.ani_resv

\* The quantities as unbounded integers.
ExactAllocated(a) == (a.ani_max - a.ani_free) * PAGE_SIZE
ExactReserved(a) == a.ani_resv * PAGE_SIZE - ExactAllocated(a)

\* C29 (the claim as stated): for ordered counters with
\* resv * PAGE_SIZE >= (max - free) * PAGE_SIZE the four quantities are
\* derived without wrapping below zero (each is the exact, non-negative
\* value) and allocated + reserved = resv * PAGE_SIZE; with
\* resv * PAGE_SIZE < allocated the subtraction of reserved() underflows:
\* the call panics or returns the wrapped value, and no error is returned.
C29_NoUnderflowWhenConsistent ==
    output.fn = "AnonInfo" /\ CountersOrdered(input) =>
        /\ ExactReserved(input) >= 0 =>
               /\ output.kind = "Ok"
               /\ output.q.allocated = ExactAllocated(input)
               /\ output.q.reserved = ExactReserved(input)
               /\ output.q.available =
                      (input.ani_max - input.ani_resv) * PAGE_SIZE
               /\ output.q.total = input.ani_max * PAGE_SIZE
               /\ output.q.allocated + output.q.reserved =
                      input.ani_resv * PAGE_SIZE
        /\ ExactReserved(input) < 0 =>
               \/ output.kind = "Panic"
               \/ /\ output.kind = "Ok"
                  /\ output.q.reserved =
                         (2 ^ UsizeBits) + ExactReserved(input)

=============================================================================
